---------------------------- MODULE Spec2Model ----------------------------
(***************************************************************************)
(* A model of the water-bill scraper: the field extractor and the record   *)
(* fetcher of scraper.py, the batch loop of main.py and the sheet export   *)
(* of sheets_handler.py.                                                   *)
(*                                                                         *)
(* Text.  A Python str is modelled as a sequence of atoms, an atom being   *)
(* an indivisible piece of text (a word, a blank, an amount).  len() is    *)
(* Len, + is \o, s[n:] is Drop, str.strip() removes blank atoms at both    *)
(* ends and re.search(label, s, re.IGNORECASE) is a case-insensitive       *)
(* search for the label's atoms as a contiguous run.                       *)
(***************************************************************************)
EXTENDS Integers, Sequences, FiniteSets, TLC

\* ------------------------------------------------------------------ bounds
\* The longest account list a batch is run on.
MaxAccounts == 2
\* The most class-tagged or untagged <div> elements of an extractor document.
MaxDivs == 2
\* The most result rows handed to export_results.
MaxExportRows == 2
\* The most <tr> elements of a billing-history table.
MaxTrs == 3

\* -------------------------------------------------------------------- text
\* Whitespace, as str.strip() sees it.
Blank == {" "}

\* str.lower() on one atom (re.IGNORECASE compares caselessly).
Lower(a) ==
    CASE a = "CURRENT"  -> "current"
      [] a = "Current"  -> "current"
      [] a = "BALANCE"  -> "balance"
      [] a = "Balance"  -> "balance"
      [] a = "Previous" -> "previous"
      [] a = "Service"  -> "service"
      [] a = "Address"  -> "address"
      [] a = "Last"     -> "last"
      [] a = "Pay"      -> "pay"
      [] a = "Date"     -> "date"
      [] a = "Amount"   -> "amount"
      [] OTHER          -> a

\* A faulty variant: the slice keeps the front, s[:n].
TakeFront(s, n) == IF n >= Len(s) THEN s ELSE SubSeq(s, 1, n)

\* s[n:]
Drop(s, n) == IF n >= Len(s) THEN << >> ELSE SubSeq(s, n + 1, Len(s))

RECURSIVE LStrip(_)
LStrip(s) == IF s # << >> /\ Head(s) \in Blank THEN LStrip(Tail(s)) ELSE s

RECURSIVE RStrip(_)
RStrip(s) ==
    IF s # << >> /\ s[Len(s)] \in Blank THEN RStrip(SubSeq(s, 1, Len(s) - 1)) ELSE s

\* str.strip()
Strip(s) == RStrip(LStrip(s))

\* The pattern occurs in the text at offset i (0-based), caselessly.
MatchesAt(pat, s, i) ==
    /\ i + Len(pat) <= Len(s)
    /\ \A k \in 1..Len(pat) : Lower(s[i + k]) = Lower(pat[k])

\* re.compile(field_name) fails on an unbalanced parenthesis.
PatternCompiles(pat) == \A k \in 1..Len(pat) : pat[k] # "("

\* re.search(field_name, text, re.IGNORECASE) for a pattern that compiles and
\* holds no metacharacter: a caseless substring search.
ReSearch(pat, s) == \E i \in 0..Len(s) : MatchesAt(pat, s, i)

\* ----------------------------------------------------------- the sentinels
NA == <<"N/A">>
ErrorSentinel == <<"Error">>
Success == <<"Success">>

\* The five labels get_bill_info asks the extractor for, in the order asked.
ServiceAddress == <<"Service", " ", "Address">>
CurrentBalance == <<"Current", " ", "Balance">>
PreviousBalance == <<"Previous", " ", "Balance">>
LastPayDate == <<"Last", " ", "Pay", " ", "Date">>
LastPayAmount == <<"Last", " ", "Pay", " ", "Amount">>

FieldKeys ==
    <<"Service Address", "Current Balance", "Previous Balance",
      "Last Pay Date", "Last Pay Amount">>

FieldLabel(k) ==
    CASE k = "Service Address"  -> ServiceAddress
      [] k = "Current Balance"  -> CurrentBalance
      [] k = "Previous Balance" -> PreviousBalance
      [] k = "Last Pay Date"    -> LastPayDate
      [] k = "Last Pay Amount"  -> LastPayAmount

\* ------------------------------------------------------- parsed documents
\* A <p>: the text before its first <b>, that <b>'s text, the text after it.
\* Without a <b>, the paragraph's text is pre \o post.
Para(pre, hasB, b, post) == [pre |-> pre, hasB |-> hasB, b |-> b, post |-> post]

\* p_tag.text
ParaText(p) == IF p.hasB THEN p.pre \o p.b \o p.post ELSE p.pre \o p.post

\* A <div>: its class attribute and its <p> descendants in document order.
Div(class, ps) == [class |-> class, ps |-> ps]

\* The class names find_all is given.
RowClasses == {"row", "rowcontenteditable="}

\* A faulty variant: every <div> is taken for a row, whatever its class.
FindAllDivs(divs) == divs

\* soup.find_all('div', class_=['row', 'rowcontenteditable='])
FindAllRows(divs) == SelectSeq(divs, LAMBDA d : d.class \in RowClasses)

\* The loop over the rows: the first row whose first <p> has a first <b> that
\* the label matches decides the value.  raised marks an exception escaping
\* the loop body (re.error from an invalid pattern).
RECURSIVE ScanRows(_, _)
ScanRows(rows, field_name) ==
    IF rows = << >> THEN [raised |-> FALSE, value |-> NA]
    ELSE LET row == Head(rows) IN
         IF row.ps = << >> THEN ScanRows(Tail(rows), field_name)
         ELSE LET p_tag == Head(row.ps) IN
              IF ~p_tag.hasB THEN ScanRows(Tail(rows), field_name)
              ELSE IF ~PatternCompiles(field_name)
                   THEN [raised |-> TRUE, value |-> << >>]
              ELSE IF ~ReSearch(field_name, p_tag.b)
                   THEN ScanRows(Tail(rows), field_name)
              ELSE LET full_text == Strip(ParaText(p_tag)) IN
                   [raised |-> FALSE,
                    value  |-> Strip(Drop(full_text, Len(p_tag.b)))]

\* A faulty variant: no except clause, the exception escapes _extract_value.
ExtractValueUncaught(divs, field_name) == ScanRows(FindAllRows(divs), field_name)

\* _extract_value: the scan inside try, 'N/A' from the except clause.
_extract_value(divs, field_name) ==
    LET r == ScanRows(FindAllRows(divs), field_name) IN
    IF r.raised THEN [raised |-> FALSE, value |-> NA] ELSE r


\* ---------------------------------------------------------- bill history
\* The billing-history <table>: present or not, and its <tr> elements in
\* document order, each with the texts of its <th> and of its <td> cells.
Tr(th, td) == [th |-> th, td |-> td]
Table(present, trs) == [present |-> present, trs |-> trs]
NoTable == Table(FALSE, << >>)

RECURSIVE Flatten(_)
Flatten(ss) == IF ss = << >> THEN << >> ELSE Head(ss) \o Flatten(Tail(ss))

StripAll(ts) == [i \in 1..Len(ts) |-> Strip(ts[i])]

\* table.find_all('th'), each th.text.strip()
TableHeaders(table) == StripAll(Flatten([i \in 1..Len(table.trs) |-> table.trs[i].th]))

\* dict(zip(headers, cells)) built by assignment: a later duplicate header wins.
ZipEntry(headers, cells) ==
    [h \in {headers[i] : i \in 1..Len(headers)} |->
        LET last == CHOOSE i \in 1..Len(headers) :
                        /\ headers[i] = h
                        /\ \A j \in 1..Len(headers) : headers[j] = h => j <= i
        IN Strip(cells[last])]

\* A faulty variant: no cell-count test, zip() pairs as many as both have.
RECURSIVE HistoryRowsZipped(_, _)
HistoryRowsZipped(trs, headers) ==
    IF trs = << >> THEN << >>
    ELSE LET cells == Head(trs).td
             n == IF Len(cells) < Len(headers) THEN Len(cells) ELSE Len(headers)
         IN <<ZipEntry(SubSeq(headers, 1, n), SubSeq(cells, 1, n))>>
                \o HistoryRowsZipped(Tail(trs), headers)

RECURSIVE HistoryRows(_, _)
HistoryRows(trs, headers) ==
    IF trs = << >> THEN << >>
    ELSE LET cells == Head(trs).td IN
         (IF Len(cells) = Len(headers) THEN <<ZipEntry(headers, cells)>> ELSE << >>)
             \o HistoryRows(Tail(trs), headers)

\* _extract_bill_history
_extract_bill_history(table) ==
    IF ~table.present THEN << >>
    ELSE HistoryRows(IF table.trs = << >> THEN << >> ELSE Tail(table.trs),
                     TableHeaders(table))

\* A results page as the fetcher reads it: its <div>s and its history table.
Doc(divs, table) == [divs |-> divs, table |-> table]

\* ---------------------------------------------------------- record fetcher
FieldKeySet == {FieldKeys[i] : i \in 1..Len(FieldKeys)}

\* current_bill_info: one _extract_value call per label.
CurrentBillInfo(doc) == [k \in FieldKeySet |-> _extract_value(doc.divs, FieldLabel(k)).value]

\* A faulty variant: a record with an empty history is taken for "no data".
IsNoDataIgnoringFields(current_bill_info, bill_history) == bill_history = << >>

\* The validation of line 131.
IsNoData(current_bill_info, bill_history) ==
    /\ \A k \in DOMAIN current_bill_info : current_bill_info[k] = NA
    /\ bill_history = << >>

\* What get_bill_info hands its caller: a record, or an exception's message.
\* stage names the step that failed and is kept for the properties only.
EmptyDict == << >>
Returned(current, history) ==
    [ok |-> TRUE, stage |-> "extracted", msg |-> << >>,
     current |-> current, history |-> history]
Raised(stage, msg) ==
    [ok |-> FALSE, stage |-> stage, msg |-> msg,
     current |-> EmptyDict, history |-> << >>]
NoResult == Raised("none", << >>)

\* except requests.RequestException as e: raise Exception(f"Network error: {str(e)}")
NetworkError(stage, e) == Raised(stage, <<"Network error: ">> \o e)
\* except Exception as e: raise Exception(f"Scraping error: {str(e)}")
ScrapingError(stage, e) == Raised(stage, <<"Scraping error: ">> \o e)

\* The entry page: whether it holds form#accountNumberForm, the form's hidden
\* inputs (name -> value), whether it holds input#accountNumber, and that
\* input's name attribute.
Page(hasForm, hidden, hasInput, inputName) ==
    [hasForm |-> hasForm, hidden |-> hidden, hasInput |-> hasInput,
     inputName |-> inputName]

\* Line 73: the name attribute of input#accountNumber, "accountNumber" when
\* the input has none.
account_field_name(page) == page.inputName

\* search_data: the hidden fields, overridden by the four fixed entries.
SearchData(hidden_fields, account_number) ==
    ( "AccountNumber" :> account_number
      @@ "searchType" :> <<"account">>
      @@ "action" :> <<"/water/_getInfoByAccountNumber">>
      @@ "submit" :> <<"buttonSubmitAccountNumber">> ) @@ hidden_fields

\* Lines 104-135: parse, extract, validate.
ExtractRecord(doc) ==
    LET current_bill_info == CurrentBillInfo(doc)
        bill_history == _extract_bill_history(doc.table)
    IN IF IsNoData(current_bill_info, bill_history)
       THEN ScrapingError("nodata", <<"No bill information found">>)
       ELSE Returned(current_bill_info, bill_history)

\* ------------------------------------------------------- the environment
\* What the portal may answer.  str(e) of a requests exception:
TransportErrors == {<<"Connection timed out">>, <<"503 Server Error">>}

Token1 == "__RequestVerificationToken" :> <<"t1">>
Token2 == "__RequestVerificationToken" :> <<"t2">> @@ "searchType" :> <<"address">>

\* Entry pages: without the form, with the form but no account input, and
\* with both (the input named AccountNumber, named otherwise, or unnamed).
EntryPages ==
    { Page(FALSE, EmptyDict, FALSE, "accountNumber"),
      Page(TRUE, Token1, FALSE, "accountNumber"),
      Page(TRUE, Token1, TRUE, "AccountNumber"),
      Page(TRUE, Token2, TRUE, "acct"),
      Page(TRUE, EmptyDict, TRUE, "accountNumber") }

\* <div class="row"><p><b>label</b> value</p></div>
LabelledRow(label, value) == Div("row", <<Para(<< >>, TRUE, label, value)>>)

HistoryTable ==
    Table(TRUE, << Tr(<< <<"Date">>, <<"Amount">> >>, << >>),
                   Tr(<< >>, << <<"2024-01-01">>, <<" ", "$10.00">> >>) >>)

\* Its only data row has one cell for two headers.
MismatchTable ==
    Table(TRUE, << Tr(<< <<"Date">>, <<"Amount">> >>, << >>),
                   Tr(<< >>, << <<"2024-01-01">> >>) >>)

\* Two data rows, and a column of its own named like the key main adds.
AccountTable ==
    Table(TRUE, << Tr(<< <<"Date">>, <<"Account Number">> >>, << >>),
                   Tr(<< >>, << <<"2024-01-01">>, <<"9999">> >>),
                   Tr(<< >>, << <<"2024-02-01">>, <<"9999">> >>) >>)

FullDivs ==
    << LabelledRow(ServiceAddress, <<" ", "Main St">>),
       LabelledRow(CurrentBalance, <<" ", "$14.00">>),
       LabelledRow(PreviousBalance, <<" ", "$7.00">>),
       LabelledRow(LastPayDate, <<" ", "01/02/2024">>),
       LabelledRow(LastPayAmount, <<" ", "$7.00">>) >>

\* Result pages: a full record with history, one field only, labels without
\* values, history only (one row, two rows), nothing at all, and nothing but
\* an unusable table.
ResultDocs ==
    { Doc(FullDivs, HistoryTable),
      Doc(<<LabelledRow(CurrentBalance, <<" ", "$14.00">>)>>, NoTable),
      Doc(<<LabelledRow(CurrentBalance, << >>)>>, NoTable),
      Doc(<< >>, HistoryTable),
      Doc(<< >>, AccountTable),
      Doc(<< >>, NoTable),
      Doc(<<Div("panel", <<Para(<< >>, TRUE, CurrentBalance, <<" ", "$14.00">>)>>)>>,
          MismatchTable) }

Accounts == {<<"1001">>, <<"1002">>}

RECURSIVE SeqsUpTo(_, _)
SeqsUpTo(S, n) ==
    IF n = 0 THEN {<< >>}
    ELSE LET shorter == SeqsUpTo(S, n - 1) IN
         shorter \cup {Append(s, x) : s \in {t \in shorter : Len(t) = n - 1}, x \in S}

\* ------------------------------------------------------------------- state
VARIABLES
    account_list,        \* main: the accounts read from the text area or the sheet
    pc,                  \* main: where the button handler stands
    idx,                 \* main: the loop's 1-based index
    current_results,     \* main: one row per processed account
    historical_results,  \* main: the history entries of the processed accounts
    progress,            \* the values handed to progress_bar.progress, as <<idx, total>>
    events,              \* what happened so far, in order: [e |-> kind, q |-> idx, res |-> result]
    fstate,              \* get_bill_info: Idle, Loaded, Submitted, Extracted, Failed
    soup,                \* get_bill_info: the entry page this query's GET fetched
    search_data,         \* get_bill_info: the POST body built from the entry page
    response,            \* get_bill_info: the parsed body of the POST's response
    bill_info,           \* what the current get_bill_info call returned or raised
    outcomes,            \* what each get_bill_info call so far returned or raised
    ex_soup,             \* extractor run: the document's <div>s
    ex_labels,           \* extractor run: the labels asked for, in order
    ex_fields,           \* extractor run: the results so far, one per label
    ex_pc,               \* extractor run: "run", "done" or "raised"
    sh_data,             \* export_results: data
    sh_headers,          \* export_results: headers
    sh_service,          \* export_results: whether self.service is set
    sh_updates,          \* export_results: the bodies' values sent to update()
    sh_pc,               \* export_results: "call", "returned" or "raised"
    hi_table,            \* history run: the billing-history table of the page
    hi_history,          \* history run: what _extract_bill_history returned
    hi_pc                \* history run: "call" or "returned"

batchVars ==
    <<account_list, pc, idx, current_results, historical_results, progress,
      events, fstate, soup, search_data, response, bill_info, outcomes>>
exVars == <<ex_soup, ex_labels, ex_fields, ex_pc>>
shVars == <<sh_data, sh_headers, sh_service, sh_updates, sh_pc>>
hiVars == <<hi_table, hi_history, hi_pc>>
vars == <<batchVars, exVars, shVars, hiVars>>

NoDoc == Doc(<< >>, NoTable)
\* No entry page fetched yet.
NoPage == Page(FALSE, EmptyDict, FALSE, "")
\* An observed step of query q; res is what a request came back with.
Event(e, q) == [e |-> e, q |-> q, res |-> "-"]
Request(e, q, res) == [e |-> e, q |-> q, res |-> res]
total == Len(account_list)

BatchIdle ==
    /\ pc = "ready" /\ idx = 0
    /\ current_results = << >> /\ historical_results = << >>
    /\ progress = << >> /\ events = << >>
    /\ fstate = "Idle" /\ soup = NoPage /\ search_data = EmptyDict /\ response = NoDoc
    /\ bill_info = NoResult /\ outcomes = << >>
ExIdle == ex_soup = << >> /\ ex_labels = << >> /\ ex_fields = << >> /\ ex_pc = "off"
ShIdle ==
    /\ sh_data = << >> /\ sh_headers = << >> /\ sh_service = FALSE
    /\ sh_updates = << >> /\ sh_pc = "off"

HiIdle == hi_table = NoTable /\ hi_history = << >> /\ hi_pc = "off"

\* The batch driver starts with the account list the page collected.
Init ==
    /\ account_list \in SeqsUpTo(Accounts, MaxAccounts)
    /\ BatchIdle /\ ExIdle /\ ShIdle /\ HiIdle

\* ------------------------------------------------------------ batch driver
\* A faulty variant: the error row is filled with 'N/A' and a fixed status.
ErrorRowNotAvailable(account, e) ==
    "Account Number" :> account
    @@ "Current Balance" :> NA
    @@ "Previous Balance" :> NA
    @@ "Last Pay Date" :> NA
    @@ "Last Pay Amount" :> NA
    @@ "Status" :> ErrorSentinel

\* The row of the except branch; e is str(e).
ErrorRow(account, e) ==
    "Account Number" :> account
    @@ "Current Balance" :> ErrorSentinel
    @@ "Previous Balance" :> ErrorSentinel
    @@ "Last Pay Date" :> ErrorSentinel
    @@ "Last Pay Amount" :> ErrorSentinel
    @@ "Status" :> e

\* bill_info['current'].get(key, "N/A")
DictGet(d, key, default) == IF key \in DOMAIN d THEN d[key] ELSE default

\* The row of the try branch.
SuccessRow(account, current) ==
    "Account Number" :> account
    @@ "Address" :> DictGet(current, "Service Address", NA)
    @@ "Current Balance" :> DictGet(current, "Current Balance", NA)
    @@ "Previous Balance" :> DictGet(current, "Previous Balance", NA)
    @@ "Last Pay Date" :> DictGet(current, "Last Pay Date", NA)
    @@ "Last Pay Amount" :> DictGet(current, "Last Pay Amount", NA)
    @@ "Status" :> Success

\* A faulty variant: a failed account leaves no row.
ResultsSkippingErrors(results, account, info) ==
    IF info.ok THEN Append(results, SuccessRow(account, info.current)) ELSE results

\* current_results after the try statement of one account.
ResultsAfter(results, account, info) ==
    Append(results,
           IF info.ok THEN SuccessRow(account, info.current)
           ELSE ErrorRow(account, info.msg))

AccountNumberKey == <<"Account Number">>

\* A faulty variant: the history entries are appended as they came.
HistoryAfterUntagged(results, account, info) ==
    IF info.ok THEN results \o info.history ELSE results

\* historical_results after the try statement of one account: on success
\* every history entry, tagged with the account, is appended.
HistoryAfter(results, account, info) ==
    IF info.ok
    THEN results \o [i \in 1..Len(info.history) |->
                        (AccountNumberKey :> account) @@ info.history[i]]
    ELSE results

ExUnchanged == UNCHANGED exVars
ShUnchanged == UNCHANGED shVars
HiUnchanged == UNCHANGED hiVars

\* if st.button(...): an empty list is refused, otherwise the loop is set up.
Click ==
    /\ pc = "ready"
    /\ IF account_list = << >>
       THEN pc' = "rejected" /\ idx' = idx
       ELSE pc' = "loop" /\ idx' = 1
    /\ UNCHANGED <<account_list, current_results, historical_results, progress,
                   events, fstate, soup, search_data, response, bill_info, outcomes>>
    /\ ExUnchanged /\ ShUnchanged /\ HiUnchanged

\* The head of the for loop: the next account's get_bill_info call starts, or
\* the loop is over.
LoopHead ==
    /\ pc = "loop"
    /\ IF idx <= total
       THEN /\ pc' = "fetch"
            /\ fstate' = "Idle"
            /\ soup' = NoPage /\ search_data' = EmptyDict
            /\ response' = NoDoc
            /\ bill_info' = NoResult
            /\ events' = Append(events, Event("call", idx))
       ELSE /\ pc' = "done"
            /\ UNCHANGED <<fstate, soup, search_data, response, bill_info, events>>
    /\ UNCHANGED <<account_list, idx, current_results, historical_results,
                   progress, outcomes>>
    /\ ExUnchanged /\ ShUnchanged /\ HiUnchanged

\* get_bill_info ends by raising.
Fail(raised, step) ==
    /\ fstate' = "Failed"
    /\ bill_info' = raised
    /\ outcomes' = Append(outcomes, raised)
    /\ events' = events \o <<step, Event("raise", idx)>>

\* What a fetched entry page holds, as an observer of the traffic sees it.
PageKind(page) ==
    IF page.hasForm /\ page.hasInput THEN "form+input"
    ELSE IF page.hasForm THEN "form only"
    ELSE "no form"

\* A faulty variant: a missing account input is not checked for.
FormCheckWithoutInput(page) == IF ~page.hasForm THEN "noform" ELSE "ok"

\* Lines 52-70: the two structure checks on the entry page.
FormCheck(page) ==
    IF ~page.hasForm THEN "noform"
    ELSE IF ~page.hasInput THEN "noinput"
    ELSE "ok"

\* Lines 43-82: the GET, the form, its hidden fields, the account input.
Load ==
    /\ pc = "fetch" /\ fstate = "Idle"
    /\ \/ \E e \in TransportErrors :
            Fail(NetworkError("GET", e), Request("GET", idx, "error"))
            /\ UNCHANGED <<soup, search_data>>
       \/ \E page \in EntryPages :
            LET seen == Request("GET", idx, PageKind(page))
                check == FormCheck(page)
            IN /\ soup' = page
               /\ IF check = "noform"
                  THEN Fail(ScrapingError("form", <<"Could not find search form">>), seen)
                       /\ UNCHANGED search_data
                  ELSE IF check = "noinput"
                  THEN Fail(ScrapingError("input",
                                          <<"Could not find account number input field">>),
                            seen)
                       /\ UNCHANGED search_data
                  ELSE /\ search_data' = SearchData(page.hidden, account_list[idx])
                       /\ fstate' = "Loaded"
                       /\ events' = Append(events, seen)
                       /\ UNCHANGED <<bill_info, outcomes>>
    /\ UNCHANGED <<account_list, pc, idx, current_results, historical_results,
                   progress, response>>
    /\ ExUnchanged /\ ShUnchanged /\ HiUnchanged

\* Lines 87-102: the POST and raise_for_status.
Submit ==
    /\ pc = "fetch" /\ fstate = "Loaded"
    /\ \/ \E e \in TransportErrors :
            Fail(NetworkError("POST", e), Request("POST", idx, "error"))
            /\ UNCHANGED response
       \/ \E doc \in ResultDocs :
            /\ response' = doc
            /\ fstate' = "Submitted"
            /\ events' = Append(events, Request("POST", idx, "ok"))
            /\ UNCHANGED <<bill_info, outcomes>>
    /\ UNCHANGED <<account_list, pc, idx, current_results, historical_results,
                   progress, soup, search_data>>
    /\ ExUnchanged /\ ShUnchanged /\ HiUnchanged

\* Lines 104-135: the fields, the history, the validation.
Extract ==
    /\ pc = "fetch" /\ fstate = "Submitted"
    /\ LET r == ExtractRecord(response) IN
       IF r.ok
       THEN /\ fstate' = "Extracted"
            /\ bill_info' = r
            /\ outcomes' = Append(outcomes, r)
            /\ events' = events \o <<Event("extract", idx), Event("return", idx)>>
       ELSE Fail(r, Event("extract", idx))
    /\ UNCHANGED <<account_list, pc, idx, current_results, historical_results,
                   progress, soup, search_data, response>>
    /\ ExUnchanged /\ ShUnchanged /\ HiUnchanged

\* A faulty variant: no except clause in main, a failed fetch ends the handler.
AppendRowUncaught ==
    /\ pc = "fetch" /\ fstate \in {"Extracted", "Failed"}
    /\ IF bill_info.ok
       THEN /\ current_results' = ResultsAfter(current_results, account_list[idx], bill_info)
            /\ historical_results' =
                   HistoryAfter(historical_results, account_list[idx], bill_info)
            /\ events' = Append(events, Event("row", idx))
            /\ pc' = "progress"
       ELSE /\ pc' = "aborted"
            /\ UNCHANGED <<current_results, historical_results, events>>
    /\ UNCHANGED <<account_list, idx, progress, fstate, soup, search_data, response,
                   bill_info, outcomes>>
    /\ ExUnchanged /\ ShUnchanged /\ HiUnchanged

\* main, lines 196-221: the try branch's appends or the except branch's.
AppendRow ==
    /\ pc = "fetch" /\ fstate \in {"Extracted", "Failed"}
    /\ current_results' = ResultsAfter(current_results, account_list[idx], bill_info)
    /\ historical_results' = HistoryAfter(historical_results, account_list[idx], bill_info)
    /\ events' = Append(events, Event("row", idx))
    /\ pc' = "progress"
    /\ UNCHANGED <<account_list, idx, progress, fstate, soup, search_data, response,
                   bill_info, outcomes>>
    /\ ExUnchanged /\ ShUnchanged /\ HiUnchanged

\* A faulty variant: a 0-based index.
ProgressValueZeroBased(i, n) == <<i - 1, n>>

\* idx / total, kept as the pair <<numerator, denominator>>.
ProgressValue(i, n) == <<i, n>>

\* progress_bar.progress(idx / total)
Progress ==
    /\ pc = "progress"
    /\ progress' = Append(progress, ProgressValue(idx, total))
    /\ events' = Append(events, Event("progress", idx))
    /\ pc' = "sleep"
    /\ UNCHANGED <<account_list, idx, current_results, historical_results, fstate,
                   soup, search_data, response, bill_info, outcomes>>
    /\ ExUnchanged /\ ShUnchanged /\ HiUnchanged

\* A faulty variant: the pause sits inside the try branch, a failed account gets none.
EventsAfterSleepOnSuccessOnly(log, i, info) ==
    IF info.ok THEN Append(log, Event("sleep", i)) ELSE log

\* time.sleep(1), whatever the fetch did.
EventsAfterSleep(log, i, info) == Append(log, Event("sleep", i))

\* The pause that ends an iteration.
Sleep ==
    /\ pc = "sleep"
    /\ events' = EventsAfterSleep(events, idx, bill_info)
    /\ idx' = idx + 1
    /\ pc' = "loop"
    /\ UNCHANGED <<account_list, current_results, historical_results, progress,
                   fstate, soup, search_data, response, bill_info, outcomes>>
    /\ ExUnchanged /\ ShUnchanged /\ HiUnchanged

Next == Click \/ LoopHead \/ Load \/ Submit \/ Extract \/ AppendRow \/ Progress \/ Sleep

Spec == Init /\ [][Next]_vars

\* ------------------------------------------------- properties of the batch
FailedAt(i) == ~outcomes[i].ok
Positions(kind, q) == {j \in 1..Len(events) : events[j].e = kind /\ events[j].q = q}
EndOfFetch(q) == Positions("return", q) \cup Positions("raise", q)

\* C1: when the batch loop finishes, current_results holds exactly one row per
\* input account, the i-th row carrying the i-th account, whatever succeeded
\* or failed; until then it holds the rows of the accounts processed so far.
C1_OneRowPerAccountInOrder ==
    /\ Len(current_results) <= total
    /\ \A i \in 1..Len(current_results) :
          current_results[i]["Account Number"] = account_list[i]
    /\ pc = "done" => Len(current_results) = total

C1_Witness ==
    /\ pc = "done" /\ total = 2
    /\ account_list[1] # account_list[2]
    /\ FailedAt(1) /\ ~FailedAt(2)

MoneyKeys == {"Current Balance", "Previous Balance", "Last Pay Date", "Last Pay Amount"}
TransportOrStructure == {"GET", "POST", "form", "input"}

\* C2: the row of a query that failed with a transport or structure error has
\* the raised message as its Status and "Error", never "N/A", in the four
\* balance and payment fields; a row has Status "Success" only if its fetch
\* returned a record.
C2_ErrorRowCarriesMessage ==
    \A i \in 1..Len(current_results) :
        LET row == current_results[i] IN
        /\ i <= Len(outcomes)
        /\ (FailedAt(i) /\ outcomes[i].stage \in TransportOrStructure) =>
              /\ row["Status"] = outcomes[i].msg
              /\ \A k \in MoneyKeys : row[k] = ErrorSentinel /\ row[k] # NA
        /\ row["Status"] = Success => outcomes[i].ok

C2_Witness ==
    /\ Len(current_results) = 2
    /\ outcomes[1].stage = "GET"
    /\ current_results[1]["Status"] = <<"Network error: ", "Connection timed out">>
    /\ outcomes[2].stage = "input"
    /\ current_results[2]["Status"] =
          <<"Scraping error: ", "Could not find account number input field">>

Calls == SelectSeq(events, LAMBDA ev : ev.e = "call")

\* Where the handler can stand; in each but "done" and "rejected" one of the
\* handler's steps is due.
Positions3 == {"ready", "rejected", "loop", "fetch", "progress", "sleep", "done"}
FetchStates == {"Idle", "Loaded", "Submitted", "Extracted", "Failed"}

\* C3: no failure of get_bill_info aborts the batch: after a fetch, failed at
\* whatever stage, the handler stands at a step of the loop, the fetcher is
\* invoked for the queries in order, one call per query so far, and when the
\* loop is over it has been invoked for every query.
C3_NoFailureAbortsBatch ==
    /\ pc \in Positions3 /\ fstate \in FetchStates
    /\ \A j \in 1..Len(Calls) : Calls[j].q = j
    /\ Len(outcomes) <= Len(Calls) /\ Len(Calls) <= Len(outcomes) + 1
    /\ pc = "loop" => Len(outcomes) = idx - 1
    /\ pc \in {"fetch", "progress", "sleep"} => Len(Calls) = idx
    /\ pc = "done" => Len(Calls) = total /\ Len(outcomes) = total /\ idx = total + 1

C3_Witness ==
    /\ pc = "done" /\ total = 2
    /\ outcomes[1].stage = "form" /\ outcomes[2].stage = "nodata"

Sleeps(from, to) == {k \in from..to : events[k].e = "sleep"}

\* C4: a fetch that is not the first starts right after a pause, the only
\* pause since the previous fetch ended, and at the end of the batch every
\* query, failed or not, has been followed by exactly one pause.
C4_OnePauseBetweenFetches ==
    /\ \A j \in 1..Len(events) :
          (events[j].e = "call" /\ events[j].q > 1) =>
              /\ events[j - 1] = Event("sleep", events[j].q - 1)
              /\ \E k \in EndOfFetch(events[j].q - 1) :
                    k < j /\ Cardinality(Sleeps(k, j)) = 1
    /\ pc = "done" =>
          \A q \in 1..total :
              /\ Cardinality(Positions("sleep", q)) = 1
              /\ \A k \in EndOfFetch(q) : \A m \in Positions("sleep", q) : k < m

C4_Witness ==
    /\ pc = "fetch" /\ idx = 2
    /\ FailedAt(1)
    /\ events[Len(events)] = Event("call", 2)

\* The call of get_bill_info under way has read its response and ended.
Classified == fstate \in {"Extracted", "Failed"} /\ bill_info.stage \in {"extracted", "nodata"}
AllNotAvailable(doc) ==
    \A k \in FieldKeySet : _extract_value(doc.divs, FieldLabel(k)).value = NA

\* C5: get_bill_info fails with "No bill information found" exactly when all
\* five fields of the response are "N/A" and its history is empty; in every
\* other case it returns the record, with the history it found, empty or not.
C5_NoDataExactlyWhenNothingFound ==
    Classified =>
        LET nothing == /\ AllNotAvailable(response)
                       /\ _extract_bill_history(response.table) = << >>
        IN /\ nothing <=> ~bill_info.ok
           /\ ~bill_info.ok =>
                 bill_info.msg = <<"Scraping error: ", "No bill information found">>
           /\ bill_info.ok =>
                 /\ bill_info.history = _extract_bill_history(response.table)
                 /\ \A k \in FieldKeySet :
                       bill_info.current[k] = _extract_value(response.divs, FieldLabel(k)).value

\* A record with a field and without history is returned.
C5_Witness ==
    /\ Classified /\ bill_info.ok
    /\ bill_info.history = << >>
    /\ bill_info.current["Current Balance"] = <<"$14.00">>
    /\ bill_info.current["Service Address"] = NA

FetchKinds == {"GET", "POST", "extract", "return", "raise"}
\* The fetcher's steps for query q, each as <<kind, result>>.
FetchTrace(q) ==
    LET evs == SelectSeq(events, LAMBDA ev : ev.q = q /\ ev.e \in FetchKinds)
    IN [i \in 1..Len(evs) |-> <<evs[i].e, evs[i].res>>]

\* The complete runs of Idle -> Loaded -> Submitted -> Extracted | Failed.
FetchRuns ==
    { << <<"GET", "error">>, <<"raise", "-">> >>,
      << <<"GET", "no form">>, <<"raise", "-">> >>,
      << <<"GET", "form only">>, <<"raise", "-">> >>,
      << <<"GET", "form+input">>, <<"POST", "error">>, <<"raise", "-">> >>,
      << <<"GET", "form+input">>, <<"POST", "ok">>, <<"extract", "-">>, <<"raise", "-">> >>,
      << <<"GET", "form+input">>, <<"POST", "ok">>, <<"extract", "-">>, <<"return", "-">> >> }
IsPrefix(s, t) == Len(s) <= Len(t) /\ s = SubSeq(t, 1, Len(s))

\* C6: for each query get_bill_info issues at most one GET and one POST, the
\* POST only after a GET whose page held the form and the account input, and
\* a failed step (GET error, form or input absent, POST error) is followed by
\* the raise and nothing else: every query's steps are a run of the state
\* machine, complete once the call has ended.
C6_FetchFollowsStateMachine ==
    \A q \in 1..total :
        LET tr == FetchTrace(q) IN
        /\ \E run \in FetchRuns : IsPrefix(tr, run)
        /\ (q < idx \/ (q = idx /\ fstate \in {"Extracted", "Failed"} /\ pc # "ready"
                                /\ Len(outcomes) >= q))
              => tr \in FetchRuns
        /\ (q <= Len(outcomes) /\ tr \in FetchRuns) =>
              (outcomes[q].ok <=> tr[Len(tr)] = <<"return", "-">>)

C6_Witness ==
    /\ pc = "done" /\ total = 2
    /\ FetchTrace(1) = << <<"GET", "form only">>, <<"raise", "-">> >>
    /\ FetchTrace(2) = << <<"GET", "form+input">>, <<"POST", "error">>, <<"raise", "-">> >>

\* a/b < c/d for positive denominators
Less(x, y) == x[1] * y[2] < y[1] * x[2]
ProgressEvents == SelectSeq(events, LAMBDA ev : ev.e \in {"row", "progress"})

\* C9: one progress value is emitted per query, after that query's row is
\* appended; the idx-th value is idx/total, so the values strictly increase
\* and the last one is 1.
C9_ProgressPerQuery ==
    /\ \A i \in 1..Len(progress) :
          progress[i][2] = total /\ progress[i][1] * total = i * progress[i][2]
    /\ \A i \in 1..(Len(progress) - 1) : Less(progress[i], progress[i + 1])
    /\ \A j \in 1..Len(ProgressEvents) :
          ProgressEvents[j] = Event(IF j % 2 = 1 THEN "row" ELSE "progress", (j + 1) \div 2)
    /\ Len(progress) = Cardinality({j \in 1..Len(events) : events[j].e = "progress"})
    /\ pc = "done" =>
          /\ Len(progress) = total
          /\ progress[total][1] = progress[total][2]

C9_Witness == pc = "done" /\ progress = << <<1, 2>>, <<2, 2>> >> /\ FailedAt(1)

\* ---------------------------------------------------------- extractor runs
\* Paragraphs an extractor document is built from: the docstring's example,
\* a label without a value, a label in another case with a colon, another
\* field, a label that is not bold, a label with text in front of it, and a
\* bold label that ends in a blank.
ExParas ==
    { Para(<< >>, TRUE, CurrentBalance, <<" ", "$14.00">>),
      Para(<< >>, TRUE, CurrentBalance, << >>),
      Para(<< >>, TRUE, <<"CURRENT", " ", "BALANCE", ":">>, <<" ", "$20.00">>),
      Para(<< >>, TRUE, PreviousBalance, <<" ", "$7.00">>),
      Para(<<"Current", " ", "Balance", " ", "$14.00">>, FALSE, << >>, << >>),
      Para(<<"Due", " ">>, TRUE, CurrentBalance, <<" ", "$14.00">>),
      Para(<< >>, TRUE, <<"Current", " ", "Balance", " ">>, << >>) }

ExParaSeqs ==
    {<< >>} \cup {<<p>> : p \in ExParas}
    \cup { << Para(<<"Current", " ", "Balance", " ", "$14.00">>, FALSE, << >>, << >>),
              Para(<< >>, TRUE, CurrentBalance, <<" ", "$30.00">>) >>,
           << Para(<< >>, TRUE, PreviousBalance, <<" ", "$7.00">>),
              Para(<< >>, TRUE, CurrentBalance, <<" ", "$30.00">>) >> }

ExDivs == {Div(c, ps) : c \in RowClasses \cup {"panel"}, ps \in ExParaSeqs}

\* A label re.compile rejects.
BadPattern == <<"(">>

\* The labels of one run, in the order asked.
ExLabelLists ==
    { <<CurrentBalance, PreviousBalance>>,
      <<BadPattern, CurrentBalance>>,
      <<<<"balance">>, BadPattern>> }

InitExtract ==
    /\ ex_soup \in SeqsUpTo(ExDivs, MaxDivs)
    /\ ex_labels \in ExLabelLists
    /\ ex_fields = << >>
    /\ ex_pc = "run"
    /\ account_list = << >> /\ BatchIdle /\ ShIdle /\ HiIdle

\* One entry of the current_bill_info literal (lines 111-117): the next
\* label's _extract_value call; an exception escaping it would end the run.
ExtractField ==
    /\ ex_pc = "run"
    /\ LET r == _extract_value(ex_soup, ex_labels[Len(ex_fields) + 1]) IN
       IF r.raised
       THEN ex_pc' = "raised" /\ UNCHANGED ex_fields
       ELSE /\ ex_fields' = Append(ex_fields, r.value)
            /\ ex_pc' = IF Len(ex_fields) + 1 = Len(ex_labels) THEN "done" ELSE "run"
    /\ UNCHANGED <<ex_soup, ex_labels>>
    /\ UNCHANGED batchVars /\ ShUnchanged /\ HiUnchanged

NextExtract == ExtractField

SpecExtract == InitExtract /\ [][NextExtract]_vars

\* The paragraphs of the class-tagged rows, whichever their place in the row.
RowParas(divs) ==
    UNION { {d.ps[i] : i \in 1..Len(d.ps)} :
            d \in {divs[j] : j \in {k \in 1..Len(divs) : divs[k].class \in RowClasses}} }
BoldMatches(p, label) == p.hasB /\ PatternCompiles(label) /\ ReSearch(label, p.b)
NoRowMatches(divs, label) == \A p \in RowParas(divs) : ~BoldMatches(p, label)

\* C7: _extract_value never raises and every label gets a string: "N/A" for
\* an empty document and for one in which no row's bold text matches the
\* label; a failure inside one call gives "N/A" for that field and the
\* fields after it are still extracted.
C7_ExtractNeverRaises ==
    /\ ex_pc # "raised"
    /\ ex_pc = "run" => Len(ex_fields) < Len(ex_labels)
    /\ ex_pc = "done" => Len(ex_fields) = Len(ex_labels)
    /\ \A i \in 1..Len(ex_fields) :
          /\ ex_fields[i] \in Seq(STRING)
          /\ ex_soup = << >> => ex_fields[i] = NA
          /\ NoRowMatches(ex_soup, ex_labels[i]) => ex_fields[i] = NA
          /\ ~PatternCompiles(ex_labels[i]) => ex_fields[i] = NA

\* re.compile fails on the first label in front of a bold row, and the
\* second label is still extracted.
C7_Witness ==
    /\ ex_pc = "done"
    /\ ex_labels[1] = BadPattern
    /\ ex_soup = <<Div("row", <<Para(<< >>, TRUE, CurrentBalance, <<" ", "$14.00">>)>>)>>
    /\ ex_fields = <<NA, <<"$14.00">>>>

\* The label is in some row's bold text, and wherever it is, the bold text is
\* the whole paragraph but for blanks.
LabelWithoutValue(divs, label) ==
    /\ \E j \in 1..Len(FindAllRows(divs)) :
          LET row == FindAllRows(divs)[j] IN
          row.ps # << >> /\ BoldMatches(Head(row.ps), label)
    /\ \A p \in RowParas(divs) :
          BoldMatches(p, label) => Strip(p.pre) = << >> /\ Strip(p.post) = << >>

\* C8: for a document in which the label appears in a row's bold text and no
\* value text follows the label, the extractor returns "N/A".
C8_LabelWithoutValueIsNA ==
    \A i \in 1..Len(ex_fields) :
        LabelWithoutValue(ex_soup, ex_labels[i]) => ex_fields[i] = NA

\* ------------------------------------------------------------ sheet export
\* str(value): the rows main builds hold str values only, and str(s) is s.
Str(v) == v

\* A faulty variant: a field the row lacks is left out of the written row.
ExportRowPresentOnly(item, headers) ==
    LET present == SelectSeq(headers, LAMBDA h : h \in DOMAIN item)
    IN [j \in 1..Len(present) |-> Str(item[present[j]])]

\* [str(item.get(header, '')) for header in headers]
ExportRow(item, headers) ==
    [j \in 1..Len(headers) |-> Str(DictGet(item, headers[j], << >>))]

\* values: the headers, then one row per item of data.
ExportValues(data, headers) ==
    <<headers>> \o [i \in 1..Len(data) |-> ExportRow(data[i], headers)]

\* list(row.keys()), in insertion order.
SuccessKeys ==
    <<"Account Number", "Address", "Current Balance", "Previous Balance",
      "Last Pay Date", "Last Pay Amount", "Status">>
ErrorKeys ==
    <<"Account Number", "Current Balance", "Previous Balance",
      "Last Pay Date", "Last Pay Amount", "Status">>

\* Rows as main builds them.
ExportRows ==
    { SuccessRow(<<"1001">>, CurrentBillInfo(Doc(FullDivs, HistoryTable))),
      SuccessRow(<<"1002">>, CurrentBillInfo(Doc(<< >>, HistoryTable))),
      ErrorRow(<<"1002">>, <<"Network error: ", "503 Server Error">>) }

InitExport ==
    /\ sh_data \in SeqsUpTo(ExportRows, MaxExportRows)
    /\ sh_headers \in {<< >>, SuccessKeys, ErrorKeys}
    /\ sh_service \in BOOLEAN
    /\ sh_updates = << >>
    /\ sh_pc = "call"
    /\ account_list = << >> /\ BatchIdle /\ ExIdle /\ HiIdle

\* export_results: authenticate if needed, return early on empty data,
\* otherwise send the values; a failure of the authentication or of the
\* update is re-raised and leaves the sheet as it was.
ExportResults ==
    /\ sh_pc = "call"
    /\ \E auth_ok \in BOOLEAN, update_ok \in BOOLEAN :
          IF ~sh_service /\ ~auth_ok
          THEN sh_pc' = "raised" /\ UNCHANGED <<sh_service, sh_updates>>
          ELSE /\ sh_service' = TRUE
               /\ IF sh_data = << >>
                  THEN sh_pc' = "returned" /\ UNCHANGED sh_updates
                  ELSE IF update_ok
                  THEN /\ sh_updates' = Append(sh_updates, ExportValues(sh_data, sh_headers))
                       /\ sh_pc' = "returned"
                  ELSE sh_pc' = "raised" /\ UNCHANGED sh_updates
    /\ UNCHANGED <<sh_data, sh_headers>>
    /\ UNCHANGED batchVars /\ ExUnchanged /\ HiUnchanged

NextExport == ExportResults

SpecExport == InitExport /\ [][NextExport]_vars

\* What the claim expects on the sheet for data and headers.
WrittenAsClaimed(values, data, headers) ==
    /\ Len(values) = 1 + Len(data)
    /\ values[1] = headers
    /\ \A i \in 1..Len(data) :
          /\ Len(values[i + 1]) = Len(headers)
          /\ \A j \in 1..Len(headers) :
                values[i + 1][j] =
                    IF headers[j] \in DOMAIN data[i] THEN data[i][headers[j]] ELSE << >>

\* C10 as stated: whenever export_results returns, it has written the header
\* row followed by one row per result row, for the empty list as well.
C10_AsStated ==
    sh_pc = "returned" =>
        Len(sh_updates) = 1 /\ WrittenAsClaimed(sh_updates[1], sh_data, sh_headers)

\* C10, amended: for a non-empty list export_results, when it returns, has
\* written the header row followed by one row per result row, in input order,
\* each with one cell per header and '' for a missing field; for the empty
\* list it returns having written nothing, not even the header row.
C10_ExportWritesHeaderAndRows ==
    /\ (sh_pc = "returned" /\ sh_data # << >>) =>
          Len(sh_updates) = 1 /\ WrittenAsClaimed(sh_updates[1], sh_data, sh_headers)
    /\ (sh_pc = "returned" /\ sh_data = << >>) => sh_updates = << >>

\* A success row and an error row under the success row's headers: the error
\* row's Address cell is ''.
C10_Witness ==
    /\ sh_pc = "returned" /\ Len(sh_data) = 2 /\ Len(sh_updates) = 1
    /\ sh_headers = SuccessKeys
    /\ "Address" \notin DOMAIN sh_data[2]
    /\ sh_updates[1][3][2] = << >>
    /\ Len(sh_updates[1][3]) = 7


\* ------------------------------------------------- the free-text fallback
\* The label is in the paragraph's text, bold or not.
TextHasLabel(p, label) == PatternCompiles(label) /\ ReSearch(label, ParaText(p))
IsRow(d) == d.class \in RowClasses

\* The label occurs in the text of some <div> that is no class-tagged row,
\* and in no class-tagged row's text.
LabelOnlyOutsideRows(divs, label) ==
    /\ \E j \in 1..Len(divs) :
          ~IsRow(divs[j]) /\ \E k \in 1..Len(divs[j].ps) : TextHasLabel(divs[j].ps[k], label)
    /\ \A j \in 1..Len(divs) :
          IsRow(divs[j]) => \A k \in 1..Len(divs[j].ps) : ~TextHasLabel(divs[j].ps[k], label)

\* Place <<j, k>> holds the document's first text with the label: a plain
\* text node of a <p>, whose parent <p> has a next sibling <p>.
FirstLabelText(divs, label, j, k) ==
    /\ j \in 1..Len(divs) /\ k \in 1..(Len(divs[j].ps) - 1)
    /\ ~divs[j].ps[k].hasB /\ TextHasLabel(divs[j].ps[k], label)
    /\ \A j2 \in 1..Len(divs) : \A k2 \in 1..Len(divs[j2].ps) :
          (j2 < j \/ (j2 = j /\ k2 < k)) => ~TextHasLabel(divs[j2].ps[k2], label)

\* C11 as stated: when the label occurs only in a text node outside any
\* class-tagged row, the free-text scan yields the text of the element next
\* to the text node's parent, not "N/A".
C11_AsStated ==
    \A i \in 1..Len(ex_fields) :
        \A j \in 1..Len(ex_soup) : \A k \in 1..Len(ex_soup[j].ps) :
            (/\ LabelOnlyOutsideRows(ex_soup, ex_labels[i])
             /\ FirstLabelText(ex_soup, ex_labels[i], j, k)) =>
                /\ ex_fields[i] # NA
                /\ ex_fields[i] = Strip(ParaText(ex_soup[j].ps[k + 1]))

\* C11, amended: the extractor has the structural-row scan only; when the
\* label occurs only in text outside any class-tagged row, no free-text scan
\* is tried and the result is "N/A".
C11_NoFreeTextFallback ==
    \A i \in 1..Len(ex_fields) :
        LabelOnlyOutsideRows(ex_soup, ex_labels[i]) => ex_fields[i] = NA

\* <div class="panel"><p>Current Balance $14.00</p><p><b>Current Balance</b>
\* $30.00</p></div>: the label is there twice, the result is "N/A".
C11_Witness ==
    /\ ex_pc = "done"
    /\ ex_labels = <<CurrentBalance, PreviousBalance>>
    /\ ex_soup =
          << Div("panel",
                 << Para(<<"Current", " ", "Balance", " ", "$14.00">>, FALSE, << >>, << >>),
                    Para(<< >>, TRUE, CurrentBalance, <<" ", "$30.00">>) >>) >>
    /\ ex_fields[1] = NA


\* --------------------------------------------------- the first match wins
\* The row has a sub-element with a bold child the label matches.
RowMatches(row, label) == \E k \in 1..Len(row.ps) : BoldMatches(row.ps[k], label)

\* The value of a paragraph: its text without the label's bold text.
ParaValue(p) == Strip(Drop(Strip(ParaText(p)), Len(p.b)))

\* The value of a matching row: that of its first matching paragraph.
RowValue(row, label) ==
    LET k == CHOOSE m \in 1..Len(row.ps) :
                 /\ BoldMatches(row.ps[m], label)
                 /\ \A n \in 1..(m - 1) : ~BoldMatches(row.ps[n], label)
    IN ParaValue(row.ps[k])

\* C12: when rows have a bold child matching the label, the result is the
\* value of the first such row in document order, a row being a match
\* whenever any of its sub-elements has a matching bold child; rows that do
\* not match are skipped.
C12_FirstMatchingRowWins ==
    \A i \in 1..Len(ex_fields) :
        LET rows == FindAllRows(ex_soup)
            label == ex_labels[i]
        IN \A j \in 1..Len(rows) :
              (/\ RowMatches(rows[j], label)
               /\ \A h \in 1..(j - 1) : ~RowMatches(rows[h], label)) =>
                  ex_fields[i] = RowValue(rows[j], label)


\* ------------------------------------------------------------ the cut point
\* The row's first <p> has a first <b> the label matches: the rows the loop
\* stops at.
FirstParaMatches(row, label) == row.ps # << >> /\ BoldMatches(Head(row.ps), label)
AllBlank(s, from, to) == \A n \in from..to : s[n] \in Blank
Trimmed(s) == s = << >> \/ (s[1] \notin Blank /\ s[Len(s)] \notin Blank)

\* v is the text that follows the first n atoms of full, without the blanks
\* around it.
FollowsCut(v, full, n) ==
    \E a \in n..Len(full) : \E z \in a..Len(full) :
        /\ v = SubSeq(full, a + 1, z)
        /\ AllBlank(full, n + 1, a) /\ AllBlank(full, z + 1, Len(full))
        /\ Trimmed(v)

\* C13: for the row that matches, the value is the paragraph's trimmed text
\* cut at exactly the length of the bold element's text, trimmed again; so
\* when the bold text is the prefix of the trimmed text, the value is exactly
\* the text that follows the bold label.
C13_CutAtBoldLength ==
    \A i \in 1..Len(ex_fields) :
        LET rows == FindAllRows(ex_soup)
            label == ex_labels[i]
        IN \A j \in 1..Len(rows) :
              (/\ FirstParaMatches(rows[j], label)
               /\ \A h \in 1..(j - 1) : ~FirstParaMatches(rows[h], label)) =>
                  LET p == Head(rows[j].ps)
                      full == Strip(ParaText(p))
                  IN /\ Len(p.b) <= Len(full) => FollowsCut(ex_fields[i], full, Len(p.b))
                     /\ Len(p.b) > Len(full) => ex_fields[i] = << >>
                     /\ IsPrefix(p.b, full) =>
                           \E lead \in 0..Len(p.post) :
                               /\ AllBlank(p.post, 1, lead)
                               /\ ex_fields[i] = Strip(SubSeq(p.post, lead + 1, Len(p.post)))

\* <b>CURRENT BALANCE:</b> $20.00 asked for as Current Balance: the cut is
\* behind the colon, at the bold text's length, not at the label's.
C13_Witness ==
    /\ ex_pc = "done"
    /\ ex_labels[1] = CurrentBalance
    /\ ex_soup = << Div("row", <<Para(<< >>, TRUE, <<"CURRENT", " ", "BALANCE", ":">>,
                                      <<" ", "$20.00">>)>>) >>
    /\ ex_fields[1] = <<"$20.00">>


\* ------------------------------------------------------------ history runs
\* The <tr> elements a history table is built from: header rows (plain, with
\* blanks around the texts, with a repeated header), data rows of two cells,
\* of one, of three and of none, and a data row that starts with a <th>.
HistoryTrs ==
    { Tr(<< <<"Date">>, <<"Amount">> >>, << >>),
      Tr(<< <<" ", "Date", " ">>, <<"Amount", " ">> >>, << >>),
      Tr(<< <<"Date">>, <<"Date">> >>, << >>),
      Tr(<< >>, << <<"2024-01-01">>, <<" ", "$10.00">> >>),
      Tr(<< >>, << <<"2024-02-01">>, <<"$20.00">> >>),
      Tr(<< >>, << <<"2024-01-01">> >>),
      Tr(<< >>, << <<"2024-01-01">>, <<"$10.00">>, <<"paid">> >>),
      Tr(<< >>, << >>),
      Tr(<< <<"Total">> >>, << <<"2024-03-01">>, <<"$30.00">> >>) }

InitHistory ==
    /\ hi_table \in {NoTable} \cup {Table(TRUE, trs) : trs \in SeqsUpTo(HistoryTrs, MaxTrs)}
    /\ hi_history = << >>
    /\ hi_pc = "call"
    /\ account_list = << >> /\ BatchIdle /\ ExIdle /\ ShIdle

\* One call of _extract_bill_history.
ExtractHistory ==
    /\ hi_pc = "call"
    /\ hi_history' = _extract_bill_history(hi_table)
    /\ hi_pc' = "returned"
    /\ UNCHANGED hi_table
    /\ UNCHANGED batchVars /\ ExUnchanged /\ ShUnchanged

NextHistory == ExtractHistory

SpecHistory == InitHistory /\ [][NextHistory]_vars

\* The table's header strings: the trimmed texts of its <th> elements.
HeaderStrings(table) ==
    LET ths == Flatten([r \in 1..Len(table.trs) |-> table.trs[r].th])
    IN [n \in 1..Len(ths) |-> Strip(ths[n])]

\* The rows after the first whose <td> count is the header count, in order.
KeptRows(table) ==
    SelectSeq([r \in 1..(Len(table.trs) - 1) |-> table.trs[r + 1]],
              LAMBDA tr : Len(tr.td) = Len(HeaderStrings(table)))

BodyBuilt == pc = "fetch" /\ fstate \in {"Loaded", "Submitted"}

\* C15: the POST body holds every hidden field of the form this query's own
\* GET fetched, and maps the name discovered from the form's account-number
\* input to the queried account.
C15_BodyUsesDiscoveredFieldName ==
    BodyBuilt =>
        /\ DOMAIN soup.hidden \subseteq DOMAIN search_data
        /\ account_field_name(soup) \in DOMAIN search_data
        /\ search_data[account_field_name(soup)] = account_list[idx]


\* ------------------------------------------------------- the history rows
\* The queries whose try statement is over.
Tried == Len(current_results)

\* The history entries the successful queries before query i returned.
RECURSIVE EntriesBefore(_)
EntriesBefore(i) ==
    IF i <= 1 THEN 0
    ELSE EntriesBefore(i - 1)
         + (IF outcomes[i - 1].ok THEN Len(outcomes[i - 1].history) ELSE 0)

\* C16: historical_results holds the history entries of the successful
\* queries only, query after query in query order and in table order within
\* a query, each carrying its query's account under "Account Number"; a failed
\* query adds none.
C16_HistoryOnlyFromSuccessfulQueries ==
    /\ Len(historical_results) = EntriesBefore(Tried + 1)
    /\ \A i \in 1..Tried :
          outcomes[i].ok =>
             \A k \in 1..Len(outcomes[i].history) :
                LET entry == historical_results[EntriesBefore(i) + k]
                    found == outcomes[i].history[k]
                IN /\ DOMAIN entry = DOMAIN found \cup {AccountNumberKey}
                   /\ entry[AccountNumberKey] = account_list[i]
                   /\ \A h \in DOMAIN found \ {AccountNumberKey} : entry[h] = found[h]
    /\ \A i \in 1..Tried :
          ~outcomes[i].ok => EntriesBefore(i + 1) = EntriesBefore(i)

\* Two accounts, both fetched: two rows of history, then one.
C16_Witness ==
    /\ pc = "done"
    /\ account_list = << <<"1001">>, <<"1002">> >>
    /\ outcomes[1].ok /\ outcomes[2].ok
    /\ Len(outcomes[1].history) = 2 /\ Len(outcomes[2].history) = 1
    /\ Len(historical_results) = 3
    /\ historical_results[2][AccountNumberKey] = <<"1001">>
    /\ historical_results[2][<<"Date">>] = <<"2024-02-01">>
    /\ historical_results[3][AccountNumberKey] = <<"1002">>

=============================================================================
